---- MODULE Spec2Model ----
(***************************************************************************)
(* Ghost exchange of cuda/test_scatterer.py: every MPI rank partitions its *)
(* ghost degrees of freedom by owner and its owned degrees of freedom by   *)
(* destination rank, prepares the index buffers of the handshake, posts    *)
(* the receives, waits for them and shifts the received global indices to  *)
(* local ones.  The scatterer module the script imports is modelled from   *)
(* the specification of the exchanger (scatter_forward, scatter_reverse).  *)
(*                                                                         *)
(* Arrays are sequences; positions are 1-based as in TLA+, the values they *)
(* hold (indices, offsets, ranks) are 0-based as in the script.            *)
(***************************************************************************)
EXTENDS Integers, Sequences, FiniteSets, TLC

\* ------------------------------------------------------------- bounds
\* Number of MPI ranks (comm.size).
NRanks == 3
\* Degrees of freedom every rank owns (rank 0 owns one more).
LocalSize == 2
\* Ghost degrees of freedom over all ranks together.
MaxGhosts == 3
\* Exchange calls a rank makes in one run of the exchanger.
MaxCalls == 2

Ranks == 0 .. (NRanks - 1)
\* No rank: one past the last
NoRank == NRanks

VARIABLES
    ghosts_of,        \* imap.ghosts of every rank: ghost slot -> global index
    dest_of,          \* imap.index_to_dest_ranks() of every rank
    pc,               \* where every rank is in the script / exchanger
    unique_owners, owners_size, owners_idx, owners_offsets,
    unique_ghosts, ghosts_size, ghosts_offsets,
    send_buff_idx,    \* per unique owner, the global indices prepared for it
    recv_buff_idx,    \* the owner's receive buffer of global indices
    all_requests,     \* the posted receives of the rank
    ghosts_idx,       \* received indices shifted to the local range
    net,              \* messages in flight: <<source, dest>> -> FIFO of payloads
    u_d,              \* the value buffer of every rank (owned, then ghosts)
    op, reduction,    \* the exchanger's direction and reduction policy
    fail_dest,        \* the destination rank the transport fails for
    calls,            \* exchange calls the rank has completed
    call_start,       \* the value buffer as the current call found it
    send_failed,      \* the destination whose send failed in this call
    after_call,       \* owned values after every completed call
    raised            \* the error the rank ended with

vars == << ghosts_of, dest_of, pc, unique_owners, owners_size, owners_idx,
           owners_offsets, unique_ghosts, ghosts_size, ghosts_offsets,
           send_buff_idx, recv_buff_idx, all_requests, ghosts_idx, net, u_d,
           op, reduction, fail_dest, calls, call_start, send_failed,
           after_call, raised >>

planVars == << unique_owners, owners_size, owners_idx, owners_offsets,
               unique_ghosts, ghosts_size, ghosts_offsets >>
scatterVars == << u_d, op, reduction, fail_dest, calls, call_start,
                  send_failed, after_call, raised >>

\* ------------------------------------------------------------- arrays
RECURSIVE SumSeq(_)
SumSeq(s) == IF s = << >> THEN 0 ELSE Head(s) + SumSeq(Tail(s))

RECURSIVE Flatten(_)
Flatten(ss) == IF ss = << >> THEN << >> ELSE Head(ss) \o Flatten(Tail(ss))

Range(s) == { s[i] : i \in DOMAIN s }

SetMin(S) == CHOOSE x \in S : \A y \in S : x <= y

RECURSIVE SortedSeq(_)
SortedSeq(S) ==
    IF S = {} THEN << >>
    ELSE LET m == SetMin(S) IN << m >> \o SortedSeq(S \ {m})

\* a[begin:end]
Slice(a, begin, end) == SubSeq(a, begin + 1, end)

\* a[idx] for an index array idx
Take(a, idx) == [ k \in 1 .. Len(idx) |-> a[idx[k] + 1] ]

\* np.unique(a): the sorted distinct values
np_unique(a) == SortedSeq(Range(a))

\* np.unique(a, return_counts=True)[1]
np_counts(a) ==
    LET u == np_unique(a)
    IN  [ i \in 1 .. Len(u) |-> Cardinality({ k \in DOMAIN a : a[k] = u[i] }) ]

\* np.cumsum replaced by a copy of the sizes (no running sum)
np_cumsum_copy(a) == a

np_cumsum(a) == [ i \in 1 .. Len(a) |-> SumSeq(SubSeq(a, 1, i)) ]

\* np.insert(a, 0, 0)
np_insert0(a) == << 0 >> \o a

Perms(n) ==
    { p \in [ 1 .. n -> 0 .. (n - 1) ] :
        \A i, j \in 1 .. n : i # j => p[i] # p[j] }

\* np.argsort(a) with the default kind (quicksort, which is not stable): some
\* permutation that sorts a; equal keys come in any order.
np_argsort(a) ==
    { p \in Perms(Len(a)) :
        \A i, j \in 1 .. Len(a) : i < j => a[p[i] + 1] <= a[p[j] + 1] }

\* ---------------------------------------------------------- index map
size_local(r) == IF r = 0 THEN LocalSize + 1 ELSE LocalSize

RECURSIVE range_begin(_)
range_begin(r) == IF r = 0 THEN 0 ELSE range_begin(r - 1) + size_local(r - 1)

\* imap.local_range
local_range(r) == << range_begin(r), range_begin(r) + size_local(r) >>

size_global == range_begin(NRanks - 1) + size_local(NRanks - 1)

OwnerOf(g) == CHOOSE r \in Ranks : local_range(r)[1] <= g /\ g < local_range(r)[2]

NotOwned(r) == { g \in 0 .. (size_global - 1) : OwnerOf(g) # r }

num_ghosts(r) == Len(ghosts_of[r])

\* imap.owners
owners(r) == [ i \in 1 .. num_ghosts(r) |-> OwnerOf(ghosts_of[r][i]) ]

\* shared_dofs.links(dof)
links(r, dof) == dest_of[r][dof + 1]

\* shared_dofs.array
shared_array(r) == UNION { links(r, dof) : dof \in 0 .. (size_local(r) - 1) }

\* Injective sequences over S of length n
RECURSIVE InjSeqs(_, _)
InjSeqs(S, n) ==
    IF n = 0 THEN { << >> }
    ELSE UNION { { << x >> \o t : t \in InjSeqs(S \ {x}, n - 1) } : x \in S }

\* Ghost lists of ranks 0 .. k-1 holding at most budget ghosts together
RECURSIVE GhostLists(_, _)
GhostLists(k, budget) ==
    IF k = 0 THEN { << >> }
    ELSE UNION { UNION { { Append(m, s) : m \in GhostLists(k - 1, budget - n) } :
                             s \in InjSeqs(NotOwned(k - 1), n) } :
                 n \in 0 .. budget }

\* The destination ranks a symmetric index map reports for the ghost lists gl
SymmetricDest(gl) ==
    [ r \in Ranks |->
        [ d \in 1 .. size_local(r) |->
            { q \in Ranks : (range_begin(r) + d - 1) \in Range(gl[q]) } ] ]

\* The same with rank q's i-th ghost missing from its owner's destinations
DropDest(dst, gl, q, i) ==
    LET g == gl[q][i]
        o == OwnerOf(g)
        d == g - range_begin(o) + 1
    IN  [ dst EXCEPT ![o][d] = @ \ {q} ]

\* Every ghost of r is reported by its owner as ghosted by r
SymmetricAt(r) ==
    \A i \in 1 .. num_ghosts(r) :
        LET g == ghosts_of[r][i]
        IN  r \in links(OwnerOf(g), g - range_begin(OwnerOf(g)))

Symmetric ==
    /\ \A r \in Ranks : SymmetricAt(r)
    /\ \A r \in Ranks : \A dof \in 0 .. (size_local(r) - 1) :
          \A q \in links(r, dof) : (range_begin(r) + dof) \in Range(ghosts_of[q])

\* -------------------------------------------- partition (lines 78-102)
\* The loop of lines 94-97 without the membership test of line 96
ghosts_list_every_dof(r) ==
    LET shared_ranks == SortedSeq(shared_array(r))
    IN  Flatten([ i \in 1 .. Len(shared_ranks) |->
            [ k \in 1 .. size_local(r) |-> shared_ranks[i] ] ])

\* ghosts: one entry per (shared rank, owned dof it ghosts), by shared rank
ghosts_list(r) ==
    LET shared_ranks == SortedSeq(shared_array(r))
    IN  Flatten([ i \in 1 .. Len(shared_ranks) |->
            LET hit == { dof \in 0 .. (size_local(r) - 1) :
                            shared_ranks[i] \in links(r, dof) }
            IN  [ k \in 1 .. Cardinality(hit) |-> shared_ranks[i] ] ])

Partition(r) ==
    /\ pc[r] = "partition"
    /\ unique_owners' = [ unique_owners EXCEPT ![r] = np_unique(owners(r)) ]
    /\ owners_size' = [ owners_size EXCEPT ![r] = np_counts(owners(r)) ]
    /\ \E p \in np_argsort(owners(r)) :
          owners_idx' = [ owners_idx EXCEPT ![r] = p ]
    /\ owners_offsets' =
          [ owners_offsets EXCEPT ![r] = np_insert0(np_cumsum(np_counts(owners(r)))) ]
    /\ unique_ghosts' = [ unique_ghosts EXCEPT ![r] = np_unique(ghosts_list(r)) ]
    /\ ghosts_size' = [ ghosts_size EXCEPT ![r] = np_counts(ghosts_list(r)) ]
    /\ ghosts_offsets' =
          [ ghosts_offsets EXCEPT ![r] =
              np_insert0(np_cumsum(np_counts(ghosts_list(r)))) ]
    /\ pc' = [ pc EXCEPT ![r] = "send" ]
    /\ UNCHANGED << ghosts_of, dest_of, send_buff_idx, recv_buff_idx,
                    all_requests, ghosts_idx, net, scatterVars >>

\* ------------------------------------------------ send (lines 116-129)
\* imap.ghosts[begin:end]: the slice taken without the permutation
SendBuffers_unpermuted(r) ==
    [ i \in 1 .. Len(unique_owners[r]) |->
        Slice(ghosts_of[r], owners_offsets[r][i], owners_offsets[r][i + 1]) ]

\* send_buff_idx[i] = imap.ghosts[owners_idx[begin:end]]
SendBuffers(r) ==
    [ i \in 1 .. Len(unique_owners[r]) |->
        Take(ghosts_of[r],
             Slice(owners_idx[r], owners_offsets[r][i], owners_offsets[r][i + 1])) ]

\* The messages the send loop hands to the transport: none, the Isend of
\* line 127 is commented out.
Isend(r, buffers) == net

SendSection(r) ==
    /\ pc[r] = "send"
    /\ send_buff_idx' = [ send_buff_idx EXCEPT ![r] = SendBuffers(r) ]
    /\ net' = Isend(r, SendBuffers(r))
    /\ pc' = [ pc EXCEPT ![r] = "receive" ]
    /\ UNCHANGED << ghosts_of, dest_of, planVars, recv_buff_idx, all_requests,
                    ghosts_idx, scatterVars >>

\* --------------------------------------------- receive (lines 131-138)
\* A receive posted from every other rank, whether it ghosts a dof or not
Irecvs_every_rank(r) ==
    [ i \in 1 .. (NRanks - 1) |->
        [ source |-> (r + i) % NRanks, begin |-> 0, end |-> 0 ] ]

\* One Irecv per unique ghost rank, into recv_buff_idx_d[begin:end]
Irecvs(r) ==
    [ i \in 1 .. Len(unique_ghosts[r]) |->
        [ source |-> unique_ghosts[r][i],
          begin  |-> ghosts_offsets[r][i],
          end    |-> ghosts_offsets[r][i + 1] ] ]

ReceiveSection(r) ==
    /\ pc[r] = "receive"
    /\ recv_buff_idx' =
          [ recv_buff_idx EXCEPT ![r] = [ k \in 1 .. SumSeq(ghosts_size[r]) |-> 0 ] ]
    /\ all_requests' = [ all_requests EXCEPT ![r] = Irecvs(r) ]
    /\ pc' = [ pc EXCEPT ![r] = "waitall" ]
    /\ UNCHANGED << ghosts_of, dest_of, planVars, send_buff_idx, ghosts_idx,
                    net, scatterVars >>

\* ------------------------------------------------- Waitall (line 140)
\* A posted receive completes when its source has a message in flight to r
Matched(r, req) == net[<< req.source, r >>] # << >>

WaitallReady(r) == \A i \in DOMAIN all_requests[r] : Matched(r, all_requests[r][i])

\* The receive buffer buf once every request has taken the message of its source
Received(r, buf) ==
    [ k \in 1 .. Len(buf) |->
        LET hit == { i \in DOMAIN all_requests[r] :
                        all_requests[r][i].begin < k /\ k <= all_requests[r][i].end }
        IN  IF hit = {} THEN buf[k]
            ELSE LET req == all_requests[r][CHOOSE i \in hit : TRUE]
                     msg == Head(net[<< req.source, r >>])
                 IN  IF k - req.begin <= Len(msg) THEN msg[k - req.begin]
                     ELSE buf[k] ]

Consumed(r) ==
    [ e \in DOMAIN net |->
        IF e[2] = r /\ \E i \in DOMAIN all_requests[r] : all_requests[r][i].source = e[1]
        THEN Tail(net[e]) ELSE net[e] ]

Waitall(r) ==
    /\ pc[r] = "waitall"
    /\ WaitallReady(r)
    /\ recv_buff_idx' = [ recv_buff_idx EXCEPT ![r] = Received(r, recv_buff_idx[r]) ]
    /\ net' = Consumed(r)
    /\ pc' = [ pc EXCEPT ![r] = "shift" ]
    /\ UNCHANGED << ghosts_of, dest_of, planVars, send_buff_idx, all_requests,
                    ghosts_idx, scatterVars >>

\* ------------------------------------- local indices (lines 142-151)
\* ghosts_idx = recv_buff_idx - imap.local_range[0]; then the script exits
\* The received global indices kept as they are
to_local_unshifted(r, buf) == buf

\* recv_buff_idx - imap.local_range[0]
to_local(r, buf) == [ k \in 1 .. Len(buf) |-> buf[k] - local_range(r)[1] ]

Shift(r) ==
    /\ pc[r] = "shift"
    /\ ghosts_idx' = [ ghosts_idx EXCEPT ![r] = to_local(r, recv_buff_idx[r]) ]
    /\ pc' = [ pc EXCEPT ![r] = "exit" ]
    /\ UNCHANGED << ghosts_of, dest_of, planVars, send_buff_idx, recv_buff_idx,
                    all_requests, net, scatterVars >>

\* ------------------------------------------------------ the script
EmptyOf == [ r \in Ranks |-> << >> ]

NoError == [ kind |-> "none", rank |-> NoRank ]

NoNet == [ e \in Ranks \X Ranks |-> << >> ]

\* Owned values 10, 20, ... by global index; stale ghost values
InitialValues(gl) ==
    [ r \in Ranks |->
        [ k \in 1 .. (size_local(r) + Len(gl[r])) |->
            IF k <= size_local(r) THEN 10 * (range_begin(r) + k)
            ELSE r + k ] ]

InitMap(gl, dst) ==
    /\ ghosts_of = [ r \in Ranks |-> gl[r + 1] ]
    /\ dest_of = dst

Init ==
    /\ \E gl \in GhostLists(NRanks, MaxGhosts) :
          LET g0 == [ r \in Ranks |-> gl[r + 1] ]
          IN  \/ InitMap(gl, SymmetricDest(g0))
              \/ \E q \in Ranks : \E i \in 1 .. Len(g0[q]) :
                    InitMap(gl, DropDest(SymmetricDest(g0), g0, q, i))
    /\ pc = [ r \in Ranks |-> "partition" ]
    /\ unique_owners = EmptyOf /\ owners_size = EmptyOf /\ owners_idx = EmptyOf
    /\ owners_offsets = EmptyOf /\ unique_ghosts = EmptyOf
    /\ ghosts_size = EmptyOf /\ ghosts_offsets = EmptyOf
    /\ send_buff_idx = EmptyOf /\ recv_buff_idx = EmptyOf
    /\ all_requests = EmptyOf /\ ghosts_idx = EmptyOf
    /\ net = NoNet
    /\ u_d = EmptyOf
    /\ op = "none" /\ reduction = "none" /\ fail_dest = NoRank
    /\ calls = [ r \in Ranks |-> 0 ]
    /\ call_start = EmptyOf
    /\ send_failed = [ r \in Ranks |-> NoRank ]
    /\ after_call = EmptyOf
    /\ raised = [ r \in Ranks |-> NoError ]

Next ==
    \E r \in Ranks :
        \/ Partition(r)
        \/ SendSection(r)
        \/ ReceiveSection(r)
        \/ Waitall(r)
        \/ Shift(r)

Spec == Init /\ [][Next]_vars

\* ---------------------------------------------------------- exchanger
\* The scatterer module: scatter_forward and scatter_reverse over the plan
\* the script hands it, owners_data = [owners_idx, owners_size,
\* owners_offsets, unique_owners] and ghosts_data = [ghosts_idx, ghosts_size,
\* ghosts_offsets, unique_ghosts].

Zeros(n) == [ k \in 1 .. n |-> 0 ]

\* What the index handshake delivers to owner rank s when every rank sends
\* its prepared buffers: per source rank, the buffer it prepared for s
HandshakeBuffer(s) ==
    Flatten([ i \in 1 .. Len(unique_ghosts[s]) |->
        LET q == unique_ghosts[s][i]
            hit == { j \in DOMAIN unique_owners[q] : unique_owners[q][j] = s }
        IN  IF hit = {} THEN Zeros(ghosts_size[s][i])
            ELSE send_buff_idx[q][CHOOSE j \in hit : TRUE] ])

\* The gather kernel: out[k] = in[idx[k]].  The indices of a plan lie in the
\* buffer (PlanInRange); a read outside it yields no value of the buffer.
Gather(a, idx) ==
    [ k \in 1 .. Len(idx) |-> IF (idx[k] + 1) \in DOMAIN a THEN a[idx[k] + 1] ELSE 0 ]

\* Pack: one contiguous buffer per remote rank, gathered in plan order
PackForward(r) ==
    [ i \in 1 .. Len(unique_ghosts[r]) |->
        [ dest    |-> unique_ghosts[r][i],
          payload |-> Gather(u_d[r], Slice(ghosts_idx[r], ghosts_offsets[r][i],
                                         ghosts_offsets[r][i + 1])) ] ]

PackReverse(r) ==
    [ j \in 1 .. Len(unique_owners[r]) |->
        [ dest    |-> unique_owners[r][j],
          payload |-> Gather(SubSeq(u_d[r], size_local(r) + 1, Len(u_d[r])),
                           Slice(owners_idx[r], owners_offsets[r][j],
                                 owners_offsets[r][j + 1])) ] ]

Posts(r) == IF op = "forward" THEN PackForward(r) ELSE PackReverse(r)

\* One receive per unique owner rank, into its slice of the receive plan
OwnerRecvs(r) ==
    [ j \in 1 .. Len(unique_owners[r]) |->
        [ source |-> unique_owners[r][j],
          begin  |-> owners_offsets[r][j],
          end    |-> owners_offsets[r][j + 1] ] ]

Requests(r) == IF op = "forward" THEN OwnerRecvs(r) ELSE Irecvs(r)

\* The transport takes every posted send but those to the failing destination
Transport(r, posts) ==
    [ e \in DOMAIN net |->
        LET hit == { i \in DOMAIN posts : posts[i].dest = e[2] }
        IN  IF e[1] = r /\ e[2] # fail_dest /\ hit # {}
            THEN Append(net[e], posts[CHOOSE i \in hit : TRUE].payload)
            ELSE net[e] ]

FailedSend(r, posts) ==
    IF \E i \in DOMAIN posts : posts[i].dest = fail_dest THEN fail_dest ELSE NoRank

\* Fire all: pack, post every send and every receive of the call
Fire(r) ==
    /\ pc[r] = "idle"
    /\ calls[r] < MaxCalls
    /\ call_start' = [ call_start EXCEPT ![r] = u_d[r] ]
    /\ net' = Transport(r, Posts(r))
    /\ send_failed' = [ send_failed EXCEPT ![r] = FailedSend(r, Posts(r)) ]
    /\ all_requests' = [ all_requests EXCEPT ![r] = Requests(r) ]
    /\ pc' = [ pc EXCEPT ![r] = "fired" ]
    /\ UNCHANGED << ghosts_of, dest_of, planVars, send_buff_idx, recv_buff_idx,
                    ghosts_idx, u_d, op, reduction, fail_dest, calls,
                    after_call, raised >>

\* buf with vals[k] written (or added) at idx[k], in order
RECURSIVE ScatterInto(_, _, _, _)
ScatterInto(buf, idx, vals, add) ==
    IF idx = << >> \/ vals = << >> THEN buf
    ELSE ScatterInto([ buf EXCEPT ![Head(idx) + 1] =
                          IF add THEN @ + Head(vals) ELSE Head(vals) ],
                     Tail(idx), Tail(vals), add)

\* Unpack of scatter_forward: received values overwrite the ghost slots
UnpackForward(r, got) ==
    ScatterInto(u_d[r],
                [ k \in 1 .. Len(owners_idx[r]) |-> size_local(r) + owners_idx[r][k] ],
                got, FALSE)

\* Unpack of scatter_reverse: received values are combined into owned slots
UnpackReverse(r, got) ==
    ScatterInto(u_d[r], ghosts_idx[r], got, reduction = "sum")

Unpacked(r) ==
    IF op = "forward"
    THEN UnpackForward(r, Received(r, Zeros(num_ghosts(r))))
    ELSE UnpackReverse(r, Received(r, Zeros(SumSeq(ghosts_size[r]))))

\* Unpack whatever arrived, failed send or not
MayUnpack_always(r) == TRUE

\* Whether the call may unpack: not when one of its sends failed
MayUnpack(r) == send_failed[r] = NoRank

\* Wait all, then unpack: the call returns
Complete(r) ==
    /\ pc[r] = "fired"
    /\ MayUnpack(r)
    /\ WaitallReady(r)
    /\ u_d' = [ u_d EXCEPT ![r] = Unpacked(r) ]
    /\ net' = Consumed(r)
    /\ all_requests' = [ all_requests EXCEPT ![r] = << >> ]
    /\ calls' = [ calls EXCEPT ![r] = @ + 1 ]
    /\ after_call' =
          [ after_call EXCEPT ![r] = Append(@, SubSeq(Unpacked(r), 1, size_local(r))) ]
    /\ pc' = [ pc EXCEPT ![r] = "idle" ]
    /\ UNCHANGED << ghosts_of, dest_of, planVars, send_buff_idx, recv_buff_idx,
                    ghosts_idx, op, reduction, fail_dest, call_start,
                    send_failed, raised >>

\* A failed send ends the call in ExchangeFailed carrying the rank
Abort(r) ==
    /\ pc[r] = "fired"
    /\ send_failed[r] # NoRank
    /\ raised' = [ raised EXCEPT ![r] =
                      [ kind |-> "ExchangeFailed", rank |-> send_failed[r] ] ]
    /\ pc' = [ pc EXCEPT ![r] = "failed" ]
    /\ UNCHANGED << ghosts_of, dest_of, planVars, send_buff_idx, recv_buff_idx,
                    all_requests, ghosts_idx, net, u_d, op, reduction,
                    fail_dest, calls, call_start, send_failed, after_call >>

\* One outcome of np.argsort(owners) for each of the ranks 0 .. k-1
RECURSIVE ArgsortOfRanks(_)
ArgsortOfRanks(k) ==
    IF k = 0 THEN { << >> }
    ELSE { Append(c, p) : c \in ArgsortOfRanks(k - 1), p \in np_argsort(owners(k - 1)) }

InitScatter ==
    /\ \E gl \in GhostLists(NRanks, MaxGhosts) :
          InitMap(gl, SymmetricDest([ r \in Ranks |-> gl[r + 1] ]))
    /\ unique_owners = [ r \in Ranks |-> np_unique(owners(r)) ]
    /\ owners_size = [ r \in Ranks |-> np_counts(owners(r)) ]
    /\ \E c \in ArgsortOfRanks(NRanks) : owners_idx = [ r \in Ranks |-> c[r + 1] ]
    /\ owners_offsets = [ r \in Ranks |-> np_insert0(np_cumsum(np_counts(owners(r)))) ]
    /\ unique_ghosts = [ r \in Ranks |-> np_unique(ghosts_list(r)) ]
    /\ ghosts_size = [ r \in Ranks |-> np_counts(ghosts_list(r)) ]
    /\ ghosts_offsets =
          [ r \in Ranks |-> np_insert0(np_cumsum(np_counts(ghosts_list(r)))) ]
    /\ send_buff_idx = [ r \in Ranks |-> SendBuffers(r) ]
    /\ recv_buff_idx = [ r \in Ranks |-> HandshakeBuffer(r) ]
    /\ ghosts_idx = [ r \in Ranks |-> to_local(r, recv_buff_idx[r]) ]
    /\ all_requests = EmptyOf
    /\ net = NoNet
    /\ pc = [ r \in Ranks |-> "idle" ]
    /\ u_d = InitialValues(ghosts_of)
    /\ \/ op = "forward" /\ reduction = "none"
       \/ op = "reverse" /\ reduction \in { "sum", "overwrite" }
    /\ fail_dest \in Ranks \cup { NoRank }
    /\ calls = [ r \in Ranks |-> 0 ]
    /\ call_start = u_d
    /\ send_failed = [ r \in Ranks |-> NoRank ]
    /\ after_call = EmptyOf
    /\ raised = [ r \in Ranks |-> NoError ]

NextScatter ==
    \E r \in Ranks :
        \/ Fire(r)
        \/ Complete(r)
        \/ Abort(r)

SpecScatter == InitScatter /\ [][NextScatter]_vars

\* ============================================================ claims
Past(r, labels) == pc[r] \notin labels

\* The stable argsort: sorted by key, equal keys in their original order
IsStableArgsort(p, a) ==
    /\ p \in np_argsort(a)
    /\ \A i, j \in 1 .. Len(a) : (i < j /\ a[p[i] + 1] = a[p[j] + 1]) => p[i] < p[j]

\* offsets is the prefix sum of sizes, starting at 0
IsPrefixSum(offsets, sizes) ==
    /\ Len(offsets) = Len(sizes) + 1
    /\ offsets[1] = 0
    /\ \A i \in 1 .. Len(sizes) : offsets[i + 1] = offsets[i] + sizes[i]

\* The (locally owned index, destination rank) pairs of rank r
DestPairs(r) ==
    { pr \in (0 .. (size_local(r) - 1)) \X Ranks : pr[2] \in links(r, pr[1]) }

\* No rank can take a step of the script any more
Quiescent ==
    \A r \in Ranks : pc[r] = "exit" \/ (pc[r] = "waitall" /\ ~WaitallReady(r))

\* C2: for a symmetric index map every posted receive is matched by a send of
\* its peer, so the wait-all of every rank returns: a rank in its wait-all
\* has, for every request, the message of the source in flight, or the source
\* has still to run its send loop.
C2_ReceivesMatched ==
    Symmetric =>
        \A s \in Ranks : pc[s] = "waitall" =>
            \A i \in DOMAIN all_requests[s] :
                \/ Matched(s, all_requests[s][i])
                \/ pc[all_requests[s][i].source] \in { "partition", "send" }

\* C3: in every plan the receive-slice offsets are a prefix sum from 0 whose
\* lengths sum to the ghost count, and the send-slice offsets are a prefix sum
\* from 0 whose lengths sum to the number of (owned index, destination) pairs.
C3_OffsetsArePrefixSums ==
    \A r \in Ranks : Past(r, { "partition" }) =>
        /\ IsPrefixSum(owners_offsets[r], owners_size[r])
        /\ owners_offsets[r][Len(owners_offsets[r])] = num_ghosts(r)
        /\ SumSeq(owners_size[r]) = num_ghosts(r)
        /\ IsPrefixSum(ghosts_offsets[r], ghosts_size[r])
        /\ ghosts_offsets[r][Len(ghosts_offsets[r])] = Cardinality(DestPairs(r))
        /\ SumSeq(ghosts_size[r]) = Cardinality(DestPairs(r))

C3_Witness ==
    \E r, s \in Ranks :
        /\ Past(r, { "partition" }) /\ Past(s, { "partition" })
        /\ num_ghosts(r) = 3 /\ owners_offsets[r] = << 0, 2, 3 >>
        /\ Cardinality(DestPairs(s)) = 2 /\ ghosts_offsets[s] = << 0, 2 >>

\* C4: the receive-plan permutation is the stable sort of the ghost slots by
\* owner rank: owners non-decreasing, equal owners in ghost-slot order.
C4_StableSort ==
    \A r \in Ranks : Past(r, { "partition" }) =>
        IsStableArgsort(owners_idx[r], owners(r))

\* C7: plan construction fails with InvalidTopology when a ghost's owner does
\* not list this rank among the destinations of the owned index.
C7_InvalidTopology ==
    \A r \in Ranks : (Past(r, { "partition" }) /\ ~SymmetricAt(r)) =>
        raised[r].kind = "InvalidTopology"

\* A rank with zero ghosts and zero destination ranks
Isolated(r) == num_ghosts(r) = 0 /\ shared_array(r) = {}

\* C8: a rank with no ghosts and no destination ranks issues no send and no
\* receive, and its wait-all returns at once, whatever the other ranks do.
C8_IsolatedRankNoOp ==
    \A r \in Ranks : Isolated(r) =>
        /\ send_buff_idx[r] = << >>
        /\ all_requests[r] = << >>
        /\ \A q \in Ranks : net[<< r, q >>] = << >>
        /\ pc[r] = "waitall" => WaitallReady(r)

C8_Witness ==
    \E r, s \in Ranks :
        /\ Isolated(r) /\ pc[r] = "exit"
        /\ ~Isolated(s) /\ pc[s] = "waitall" /\ ~WaitallReady(s)

\* The buffers r prepared for owner s, the receives s posted from source r
Prepared(r, s) == { i \in DOMAIN send_buff_idx[r] : unique_owners[r][i] = s }

Posted(s, r) == { i \in DOMAIN all_requests[s] : all_requests[s][i].source = r }

\* C9: for a symmetric index map and ranks r, s: r prepares a buffer for owner
\* s exactly when s posts a receive from r, at most one of each, and the
\* buffer is as long as the receive slice (r's ghosts owned by s, which is
\* s's owned indices with r as destination).
C9_BuffersMatchSlices ==
    Symmetric =>
        \A r, s \in Ranks :
            (r # s /\ Past(r, { "partition", "send" })
                   /\ Past(s, { "partition", "send", "receive" })) =>
                /\ Cardinality(Prepared(r, s)) <= 1
                /\ Cardinality(Posted(s, r)) <= 1
                /\ (Prepared(r, s) # {}) <=> (Posted(s, r) # {})
                /\ \A i \in Prepared(r, s) : \A j \in Posted(s, r) :
                      LET req == all_requests[s][j]
                      IN  /\ Len(send_buff_idx[r][i]) = req.end - req.begin
                          /\ Len(send_buff_idx[r][i]) =
                                Cardinality({ k \in DOMAIN ghosts_of[r] :
                                                OwnerOf(ghosts_of[r][k]) = s })
                          /\ req.end - req.begin =
                                Cardinality({ pr \in DestPairs(s) : pr[2] = r })

C9_Witness ==
    \E r, s \in Ranks :
        /\ r # s /\ Symmetric
        /\ pc[r] = "waitall" /\ pc[s] = "waitall"
        /\ \E i \in Prepared(r, s) : Len(send_buff_idx[r][i]) = 2
        /\ \E j \in Posted(s, r) : all_requests[s][j].end - all_requests[s][j].begin = 2

PlanInRange ==
    \A r \in Ranks :
        /\ \A k \in DOMAIN ghosts_idx[r] :
              0 <= ghosts_idx[r][k] /\ ghosts_idx[r][k] < size_local(r)
        /\ \A k \in DOMAIN owners_idx[r] :
              0 <= owners_idx[r][k] /\ owners_idx[r][k] < num_ghosts(r)

\* Every rank has returned from its n-th exchange call and begun no other
AllReturned(n) == \A r \in Ranks : pc[r] = "idle" /\ calls[r] = n

\* The owned value the owner of global index g holds
OwnedValue(g) == u_d[OwnerOf(g)][g - range_begin(OwnerOf(g)) + 1]

RECURSIVE SumOver(_, _)
SumOver(S, f) ==
    IF S = {} THEN 0
    ELSE LET x == CHOOSE y \in S : TRUE IN f[x] + SumOver(S \ {x}, f)

GhostHolders(r, d) ==
    { h \in Ranks \X (1 .. MaxGhosts) :
        /\ h[2] <= num_ghosts(h[1])
        /\ ghosts_of[h[1]][h[2]] = range_begin(r) + d - 1 }

Contribution(r, d) ==
    SumOver(GhostHolders(r, d),
            [ h \in GhostHolders(r, d) |-> u_d[h[1]][size_local(h[1]) + h[2]] ])

C6_FailedCallUnpacksNothing ==
    \A r \in Ranks :
        /\ send_failed[r] # NoRank =>
              /\ send_failed[r] = fail_dest
              /\ pc[r] \in { "fired", "failed" }
              /\ u_d[r] = call_start[r]
        /\ pc[r] = "failed" =>
              raised[r] = [ kind |-> "ExchangeFailed", rank |-> fail_dest ]
        /\ raised[r].kind # "none" => (pc[r] = "failed" /\ send_failed[r] # NoRank)

C6_Witness ==
    \E r, q \in Ranks :
        /\ pc[r] = "failed" /\ raised[r].rank = fail_dest /\ q # fail_dest
        /\ q \in Range(unique_owners[r]) \cup Range(unique_ghosts[r])
        /\ net[<< q, r >>] # << >>
        /\ u_d[r] = call_start[r]

====
